---- MODULE Spec2Model ----
(***************************************************************************)
(* Navigation controller of pytwitch (src/twitch/app.py, class App).       *)
(*                                                                         *)
(* The controller is a tree of mutually recursive methods.  The model      *)
(* keeps the Python call stack explicitly: `stack` is the sequence of      *)
(* pending method invocations, the last one being the running one, and     *)
(* each frame holds the method's arguments, its locals and the place       *)
(* (`pc`) where it resumes when its callee returns.                        *)
(*                                                                         *)
(* Strings are modelled as sequences of blank-separated tokens, so that    *)
(* str.split(" "), str.startswith(..) and `icon in str` act on them as the *)
(* code does.  Channel names are single tokens.                            *)
(*                                                                         *)
(* The menu (twitch.utils.menu.Menu) is an external collaborator: its      *)
(* reply is an input.  It is given the items and answers with one string:  *)
(* an item, the back sentinel (when back is enabled) or anything else.     *)
(* It does not change the list it is given.                                *)
(***************************************************************************)
EXTENDS Naturals, Sequences, FiniteSets, TLC

\* Cap on the number of pending invocations (the recursion is unbounded).
MaxDepth == 8
\* Longest list a remote fetch returns.
MaxList == 2

---------------------------------------------------------------------------
(* Tokens *)

BULLET_ICON == "*"
CLOCK == "clock"
CALENDAR == "cal"
live_icon == "LIVE"
delimiter == "|"
\* menu.back, the back sentinel
back == <<"Back">>
\* a reply that is no item and not the back sentinel
Junk == <<"z">>

ChannelIds == {1, 2}
\* display names, in sort order; the channels 1 and 2 carry the first two
NameOrder == <<"alice", "bob", "carol">>
Names == {NameOrder[i] : i \in 1..Len(NameOrder)}
Titles == {"t1", "t2"}
Urls == {"u1", "u2"}
Digits == <<"0", "1", "2", "3", "4">>

Range(s) == {s[i] : i \in 1..Len(s)}
SeqsUpTo(S, n) == UNION {[1..k -> S] : k \in 0..n}
DistinctSeqs(S) == {s \in SeqsUpTo(S, Cardinality(S)) : \A i, j \in 1..Len(s) : s[i] = s[j] => i = j}
IndexOf(s, x) == CHOOSE i \in 1..Len(s) : s[i] = x /\ \A j \in 1..(i - 1) : s[j] # x

---------------------------------------------------------------------------
(* Remote records *)

\* ChannelUserFollows
Follow(id) == [to_id |-> id, to_name |-> NameOrder[id]]
FollowLists == {[i \in 1..Len(s) |-> Follow(s[i])] : s \in DistinctSeqs(ChannelIds)}
\* LiveStreamInfo
Streams == [user_name : Names, title : Titles]
\* what twitch.channels.followed_streams_live answers while navigating
LiveAnswers == SeqsUpTo([user_name : {NameOrder[i] : i \in ChannelIds}, title : {"t1"}], 2)
\* what twitch.channels_live_for_menu answers (the user_name of each entry)
LiveMenuAnswers == SeqsUpTo({NameOrder[i] : i \in ChannelIds}, 2)
\* TwitchClip / Video
Media(url) == [title |-> "t1", url |-> url]
\* what get_videos / get_clips answer: nothing, one record, two records that
\* differ, two records with the same fields
MediaAnswers == {<<>>, <<Media("u1")>>, <<Media("u2"), Media("u1")>>, <<Media("u1"), Media("u1")>>}
\* BroadcasterInfo returned by twitch.channels.information(user_id)
information(user_id) == [broadcaster_id |-> user_id, broadcaster_name |-> NameOrder[user_id], title |-> "t1", game_name |-> "game"]

---------------------------------------------------------------------------
(* dict: insertion-ordered mapping, a sequence of key/value pairs *)

DictKeys(d) == [i \in 1..Len(d) |-> d[i].key]
DictValues(d) == [i \in 1..Len(d) |-> d[i].val]
DictGet(d, k) == d[IndexOf(DictKeys(d), k)].val
DictSet(d, k, v) ==
    IF k \in Range(DictKeys(d))
    THEN [d EXCEPT ![IndexOf(DictKeys(d), k)].val = v]
    ELSE Append(d, [key |-> k, val |-> v])

RECURSIVE DictFrom(_, _, _)
DictFrom(d, keys, vals) ==
    IF keys = <<>> THEN d
    ELSE DictFrom(DictSet(d, Head(keys), Head(vals)), Tail(keys), Tail(vals))

---------------------------------------------------------------------------
(* Labels *)

\* sorted(follows_names)
sorted(names) == SelectSeq(NameOrder, LAMBDA n : n \in Range(names))

\* f"{title} {info}" of merge_with_online
\* (the titles of the model are shorter than the cut of c.title[:40])
LiveLabel(c) == <<live_icon, c.user_name, delimiter, c.title, "(eye", "viewers", delimiter, "since)">>

\* One pass of the loop body of merge_with_online for stream c.
MergeOne_last(follows_names, c) ==
    LET hits == {i \in 1..Len(follows_names) :
                    follows_names[i] = <<c.user_name>> \/ \E t \in Titles :
                        follows_names[i] = LiveLabel([user_name |-> c.user_name, title |-> t])}
    IN  IF hits # {}
        THEN [follows_names EXCEPT ![CHOOSE i \in hits : TRUE] = LiveLabel(c)]
        ELSE follows_names
MergeOne_drop(follows_names, c) ==
    IF <<c.user_name>> \in Range(follows_names)
    THEN SelectSeq(follows_names, LAMBDA l : l # <<c.user_name>>) \o <<LiveLabel(c)>>
    ELSE follows_names
MergeOne(follows_names, c) ==
    IF <<c.user_name>> \in Range(follows_names)
    THEN [follows_names EXCEPT ![IndexOf(follows_names, <<c.user_name>>)] = LiveLabel(c)]
    ELSE follows_names

RECURSIVE merge_with_online(_, _)
merge_with_online(follows_names, followed_streams_live) ==
    IF followed_streams_live = <<>> THEN follows_names
    ELSE merge_with_online(MergeOne(follows_names, Head(followed_streams_live)), Tail(followed_streams_live))

\* selected.split(" ")[1] for a live label, the label itself otherwise (show_follows)
FollowKey_first(selected) ==
    IF live_icon \in Range(selected) THEN selected[1] ELSE selected[1]
FollowKey(selected) ==
    IF live_icon \in Range(selected) THEN selected[2] ELSE selected[1]

VideoLabel_noindex(i, v) == <<BULLET_ICON, v.title, delimiter, CLOCK, "(eye", "views)">>
VideoLabel(i, v) == <<Digits[i], BULLET_ICON, v.title, delimiter, CLOCK, "(eye", "views)">>
ClipLabel(i, c) == <<Digits[i], BULLET_ICON, c.title, "createor:", "creator", "(eye", "views", delimiter, CALENDAR, "date)">>

videos_dict(channel_videos) ==
    DictFrom(<<>>, [i \in 1..Len(channel_videos) |-> VideoLabel(i, channel_videos[i])], channel_videos)
clips_dict(clips) ==
    DictFrom(<<>>, [i \in 1..Len(clips) |-> ClipLabel(i, clips[i])], clips)

\* menu_options of show_menu
AllFollows == <<BULLET_ICON, "All", "follows">>
LiveFollowed == <<BULLET_ICON, "Live", "followed">>
menu_options == <<AllFollows, LiveFollowed>>

\* menu_info of show_info
menu_info(channel, is_online) ==
    << <<"Category:", channel.game_name>>,
       IF is_online THEN <<live_icon, "Live", "Stream:", channel.title>>
                    ELSE <<"Last", "Stream:", channel.title>>,
       <<"-----">>,
       <<"Videos:", "Get", "videos">>,
       <<"Clips:", "Get", "clips">> >>

\* f"Option '{selected}' selected not found."
MissingMessage(selected) == <<"Option">> \o selected \o <<"selected", "not", "found.">>

---------------------------------------------------------------------------
(* State *)

VARIABLES
    stack,          \* pending invocations, the running one last
    status,         \* "running", or how the process ended
    _user_follows,  \* App._user_follows: [none |-> TRUE] is None
    remote_follows, \* what twitch.channels.follows answers in this run
    follows_calls,  \* number of reads of twitch.channels.follows
    played,         \* the last target handed to the player / launcher
    m_names,        \* merge_with_online alone: its argument follows_names,
    m_streams,      \*   the answer of twitch.channels.followed_streams_live,
    m_out,          \*   and [done, val]: the list it returned
    main            \* __main__.main: [pc, args, events, err, ret]

vars == <<stack, status, _user_follows, remote_follows, follows_calls, played, m_names, m_streams, m_out, main>>

None == [fn |-> "None", chan |-> 0]

\* main() blocked in the run(...) of lines 37-42 with the default arguments
NoArgs == [help |-> FALSE, verbose |-> FALSE, test |-> FALSE, channel |-> FALSE, games |-> FALSE]
MainInRun ==
    [pc |-> "dispatch", args |-> NoArgs,
     events |-> <<"logger.verbose", "setup.menu", "setup.app", "setup.keybinds">>,
     err |-> "none", ret |-> "unset"]
NoSelection == <<>>

Frame(fn, chan) ==
    [fn |-> fn, pc |-> "start", chan |-> chan, items |-> <<>>, fb |-> None,
     back |-> FALSE, sel |-> NoSelection, data |-> <<>>, follows |-> <<>>, sess |-> 0,
     fetches |-> <<>>]

\* An invocation of App.show_items(items, fallback_fn, back=back) blocked in menu.show_items
ShowItemsFrame(items, fallback_fn, back_enabled) ==
    [Frame("show_items", 0) EXCEPT !.pc = "prompt", !.items = items, !.fb = fallback_fn, !.back = back_enabled]

\* An invocation of show_no_results_message(log_msg) blocked in menu.show_items
NoResultsFrame(log_msg) ==
    [Frame("show_no_results_message", 0) EXCEPT !.pc = "prompt", !.items = <<log_msg>>]

Top == stack[Len(stack)]
At(fn, pc) == status = "running" /\ stack # <<>> /\ Top.fn = fn /\ Top.pc = pc
CanCall == Len(stack) < MaxDepth
\* the running frame calls f and will resume at pc
Call(pc, f) == Append([stack EXCEPT ![Len(stack)].pc = pc], f)
\* the same, after the running frame read `fetches` from the remote API
Draw(pc, fetches, f) == Append([stack EXCEPT ![Len(stack)] = [Top EXCEPT !.pc = pc, !.fetches = fetches]], f)
Caller == Len(stack) - 1
Pop == SubSeq(stack, 1, Len(stack) - 1)

Init ==
    /\ stack = <<Frame("show_menu", 0)>>
    /\ status = "running"
    /\ _user_follows = [none |-> TRUE, val |-> <<>>]
    /\ remote_follows \in FollowLists
    /\ follows_calls = 0
    /\ played = [kind |-> "none", target |-> <<>>]
    /\ m_names = <<>>
    /\ m_streams = <<>>
    /\ m_out = [done |-> FALSE, val |-> <<>>]
    /\ main = MainInRun

---------------------------------------------------------------------------
(* Selection gate: App.show_items, handle_missing_option,                  *)
(* show_no_results_message                                                 *)

\* What the menu may answer to a prompt
Replies(f) == Range(f.items) \cup {Junk} \cup (IF f.back THEN {back} ELSE {})

\* Lines 86-95: which branch of show_items a reply takes
Classify_accept(selected, items, fallback_fn) == "known"
Classify(selected, items, fallback_fn) ==
    IF selected \notin Range(items) THEN "invalid"
    ELSE IF selected = back /\ fallback_fn # None THEN "back"
    ELSE "known"

\* sys.exit(1) and uncaught exceptions unwind every pending invocation
Terminate(how) ==
    /\ status' = how
    /\ stack' = <<>>

\* `return value` of the running invocation into the field of its caller
ReturnTo(field, value) ==
    IF Len(stack) = 1
    THEN stack' = <<>> /\ status' = "done"
    ELSE /\ stack' = [Pop EXCEPT ![Caller] = [@ EXCEPT ![field] = value]]
         /\ UNCHANGED status

\* menu.show_items answers `selected` to the prompt of show_items
ShowItemsReply ==
    /\ At("show_items", "prompt")
    /\ \E selected \in Replies(Top) :
        LET class == Classify(selected, Top.items, Top.fb)
            me == [Top EXCEPT !.sel = selected]
        IN  CASE class = "invalid" ->
                   /\ CanCall
                   /\ stack' = Append([stack EXCEPT ![Len(stack)] = [me EXCEPT !.pc = "missing"]],
                                      [Frame("handle_missing_option", 0) EXCEPT !.sel = selected])
                   /\ UNCHANGED status
              [] class = "back" ->
                   /\ CanCall
                   /\ stack' = Append([stack EXCEPT ![Len(stack)] = [me EXCEPT !.pc = "return_selected"]],
                                      Frame(Top.fb.fn, Top.fb.chan))
                   /\ UNCHANGED status
              [] OTHER -> ReturnTo("sel", selected)
    /\ UNCHANGED <<_user_follows, remote_follows, follows_calls, played, m_names, m_streams, m_out, main>>

\* handle_missing_option: the informational screen, shown through show_items
HandleMissingOption ==
    /\ At("handle_missing_option", "start")
    /\ CanCall
    /\ stack' = Call("return", ShowItemsFrame(<<MissingMessage(Top.sel)>>, None, FALSE))
    /\ UNCHANGED <<status, _user_follows, remote_follows, follows_calls, played, m_names, m_streams, m_out, main>>

\* Lines 88-90, after handle_missing_option returned
ShowItemsMissing ==
    /\ At("show_items", "missing")
    /\ IF Top.fb # None
       THEN /\ CanCall
            /\ stack' = Call("exit", Frame(Top.fb.fn, Top.fb.chan))
            /\ UNCHANGED status
       ELSE Terminate("exit1")
    /\ UNCHANGED <<_user_follows, remote_follows, follows_calls, played, m_names, m_streams, m_out, main>>

\* The fallback returned: sys.exit(1) (line 90), or return selected (line 95)
ShowItemsFallbackReturned ==
    /\ status = "running" /\ stack # <<>>
    /\ Top.fn = "show_items" /\ Top.pc \in {"exit", "return_selected"}
    /\ IF Top.pc = "exit" THEN Terminate("exit1") ELSE ReturnTo("sel", Top.sel)
    /\ UNCHANGED <<_user_follows, remote_follows, follows_calls, played, m_names, m_streams, m_out, main>>

\* show_no_results_message: menu.show_items is called directly, its reply is dropped
NoResultsReply ==
    /\ At("show_no_results_message", "prompt")
    /\ \E selected \in Replies(Top) : stack' = Pop
    /\ UNCHANGED status
    /\ UNCHANGED <<_user_follows, remote_follows, follows_calls, played, m_names, m_streams, m_out, main>>

\* `return` / falling off the end of a method that returns None
Return ==
    /\ status = "running" /\ stack # <<>>
    /\ Top.pc = "return"
    /\ IF Len(stack) = 1
       THEN stack' = <<>> /\ status' = "done"
       ELSE stack' = Pop /\ UNCHANGED status
    /\ UNCHANGED <<_user_follows, remote_follows, follows_calls, played, m_names, m_streams, m_out, main>>

---------------------------------------------------------------------------
(* Helpers of the screens *)

\* helpers.clean_string(s, icon): s without the icon
clean_string(s, icon) == SelectSeq(s, LAMBDA t : t # icon)
\* s.split(sep)[0]
RECURSIVE SplitFirst(_, _)
SplitFirst(s, sep) ==
    IF s = <<>> \/ Head(s) = sep THEN <<>> ELSE <<Head(s)>> \o SplitFirst(Tail(s), sep)

\* selected.startswith(prefix)
startswith(selected, prefix) ==
    /\ selected # <<>>
    /\ \/ selected[1] = prefix
       \/ prefix = "Clips" /\ selected[1] = "Clips:"
       \/ prefix = "Videos" /\ selected[1] = "Videos:"

\* play_stream_selected(stream) / play_clip_selected(clip)
play_stream_selected(stream) == played' = [kind |-> "stream", target |-> stream]
play_clip_selected(clip) == played' = [kind |-> "clip", target |-> <<clip.url>>]

\* The property App.user_follows (lines 49-54): <<value read, cache, calls>>
MustFetchFollows(cache) == cache.none \/ cache.val = <<>>
user_follows ==
    IF MustFetchFollows(_user_follows)
    THEN [val |-> remote_follows, cache |-> [none |-> FALSE, val |-> remote_follows], calls |-> follows_calls + 1]
    ELSE [val |-> _user_follows.val, cache |-> _user_follows, calls |-> follows_calls]

\* fallback_fn bound by each screen
FollowsFallback == [fn |-> "show_menu", chan |-> 0]
OnlineFallback == [fn |-> "show_menu", chan |-> 0]
InfoFallback == [fn |-> "show_follows_and_online", chan |-> 0]
VideosFallback_root(channel) == [fn |-> "show_menu", chan |-> 0]
VideosFallback(channel) == [fn |-> "show_info", chan |-> channel.broadcaster_id]
ClipsFallback(channel) == [fn |-> "show_info", chan |-> channel.broadcaster_id]

\* lines 245-246: the selection that raises NotImplementedError
Unsupported_never(selected) == FALSE
Unsupported(selected) == startswith(selected, "Last")
\* line 251: self.show_info(user_id)
InfoReentry_root(user_id) == Frame("show_menu", 0)
InfoReentry(user_id) == Frame("show_info", user_id)

\* line 192: return self.show_videos(channel)
VideosReentry_root(broadcaster_id) == Frame("show_menu", 0)
VideosReentry(broadcaster_id) == Frame("show_videos", broadcaster_id)

\* the members of self.twitch that query the remote API
RemoteReads ==
    {"follows", "followed_streams_live", "information", "is_online", "get_clips", "get_videos",
     "channels_live_for_menu"}
\* the reads of self.twitch in one draw of each screen, in the order they are issued
\* lines 218 and 223
InfoFetches == <<"information", "is_online">>
\* line 166
VideosFetches_twice == <<"get_videos", "get_videos">>
VideosFetches == <<"get_videos">>
\* line 110
OnlineFetches == <<"channels_live_for_menu">>
\* lines 51-52 and 153
FollowsFetches(cache) ==
    (IF MustFetchFollows(cache) THEN <<"follows">> ELSE <<>>) \o <<"followed_streams_live">>

\* line 271: `if not clips`
NeedsFetch_always(clips) == TRUE
NeedsFetch(clips) == clips = <<>>
\* lines 271-273
ClipsFetches(clips) == IF NeedsFetch(clips) THEN <<"get_clips">> ELSE <<>>
\* line 282: `if not clips_dict`
NoClips_never(d) == FALSE
NoClips(d) == d = <<>>

---------------------------------------------------------------------------
(* Screens *)

\* show_menu up to its prompt
ShowMenu ==
    /\ At("show_menu", "start")
    /\ CanCall
    /\ stack' = Call("selected", ShowItemsFrame(menu_options, None, FALSE))
    /\ UNCHANGED <<status, _user_follows, remote_follows, follows_calls, played, m_names, m_streams, m_out, main>>

\* menu_options[selected]()
ShowMenuDispatch ==
    /\ At("show_menu", "selected")
    /\ CanCall
    /\ stack' = Call("return", Frame(IF Top.sel = AllFollows THEN "show_follows_and_online"
                                                           ELSE "show_online_follows", 0))
    /\ UNCHANGED <<status, _user_follows, remote_follows, follows_calls, played, m_names, m_streams, m_out, main>>

\* show_online_follows up to its prompt, or to the no-results screen
ShowOnlineFollows ==
    /\ At("show_online_follows", "start")
    /\ CanCall
    /\ \E channels_live_for_menu \in LiveMenuAnswers :
        LET labels == [i \in 1..Len(channels_live_for_menu) |-> <<channels_live_for_menu[i]>>]
            items == DictFrom(<<>>, labels, channels_live_for_menu)
        IN  IF items = <<>>
            THEN stack' = Draw("no_results", OnlineFetches, NoResultsFrame(<<"No", "online", "followed", "channels">>))
            ELSE stack' = Append([stack EXCEPT ![Len(stack)] =
                                     [Top EXCEPT !.pc = "selected", !.fetches = OnlineFetches,
                                                 !.data = DictValues(items)]],
                                 ShowItemsFrame(DictKeys(items), OnlineFallback, TRUE))
    /\ UNCHANGED <<status, _user_follows, remote_follows, follows_calls, played, m_names, m_streams, m_out, main>>

\* line 113: return
ShowOnlineFollowsNoResults ==
    /\ At("show_online_follows", "no_results")
    /\ stack' = Pop
    /\ UNCHANGED <<status, _user_follows, remote_follows, follows_calls, played, m_names, m_streams, m_out, main>>

\* lines 118-120
ShowOnlineFollowsPlay ==
    /\ At("show_online_follows", "selected")
    /\ play_stream_selected(SplitFirst(clean_string(Top.sel, live_icon), delimiter))
    /\ stack' = Pop
    /\ UNCHANGED <<status, _user_follows, remote_follows, follows_calls, m_names, m_streams, m_out, main>>

\* show_follows_and_online: show_follows(), then show_info(follow.to_id)
ShowFollowsAndOnline ==
    /\ status = "running" /\ stack # <<>>
    /\ Top.fn = "show_follows_and_online" /\ Top.pc \in {"start", "follow"}
    /\ CanCall
    /\ IF Top.pc = "start"
       THEN stack' = Call("follow", Frame("show_follows", 0))
       ELSE stack' = Call("return", Frame("show_info", Top.chan))
    /\ UNCHANGED <<status, _user_follows, remote_follows, follows_calls, played, m_names, m_streams, m_out, main>>

\* show_follows up to its prompt
ShowFollows ==
    /\ At("show_follows", "start")
    /\ CanCall
    /\ \E followed_streams_live \in LiveAnswers :
        LET got == user_follows
            follows == DictFrom(<<>>, [i \in 1..Len(got.val) |-> got.val[i].to_name], got.val)
            names == sorted(DictKeys(follows))
            follows_names == merge_with_online([i \in 1..Len(names) |-> <<names[i]>>], followed_streams_live)
        IN  /\ _user_follows' = got.cache
            /\ follows_calls' = got.calls
            /\ stack' = Append([stack EXCEPT ![Len(stack)] =
                                    [Top EXCEPT !.pc = "selected", !.follows = follows,
                                                !.fetches = FollowsFetches(_user_follows)]],
                               ShowItemsFrame(follows_names, FollowsFallback, TRUE))
    /\ UNCHANGED <<status, remote_follows, played, m_names, m_streams, m_out, main>>

\* lines 143-146: return follows[selected]
ShowFollowsSelected ==
    /\ At("show_follows", "selected")
    /\ LET key == FollowKey(Top.sel)
       IN  IF key \in Range(DictKeys(Top.follows))
           THEN ReturnTo("chan", DictGet(Top.follows, key).to_id)
           ELSE Terminate("KeyError")
    /\ UNCHANGED <<_user_follows, remote_follows, follows_calls, played, m_names, m_streams, m_out, main>>

\* show_info up to its prompt
ShowInfo ==
    /\ At("show_info", "start")
    /\ CanCall
    /\ \E is_online \in BOOLEAN :
        stack' = Draw("selected", InfoFetches,
                      ShowItemsFrame(menu_info(information(Top.chan), is_online), InfoFallback, TRUE))
    /\ UNCHANGED <<status, _user_follows, remote_follows, follows_calls, played, m_names, m_streams, m_out, main>>

\* lines 239-251, resumed at the first `if` not yet taken
ShowInfoSelected ==
    /\ status = "running" /\ stack # <<>>
    /\ Top.fn = "show_info" /\ Top.pc \in {"selected", "after_clips", "after_videos"}
    /\ LET channel == information(Top.chan)
           from == CASE Top.pc = "selected" -> 1 [] Top.pc = "after_clips" -> 2 [] OTHER -> 3
       IN  CASE from <= 1 /\ startswith(Top.sel, "Clips") ->
                  /\ CanCall
                  /\ stack' = Call("after_clips", Frame("show_clips", channel.broadcaster_id))
                  /\ UNCHANGED <<status, played>>
             [] from <= 2 /\ startswith(Top.sel, "Videos") ->
                  /\ CanCall
                  /\ stack' = Call("after_videos", Frame("show_videos", channel.broadcaster_id))
                  /\ UNCHANGED <<status, played>>
             [] Unsupported(Top.sel) ->
                  /\ Terminate("NotImplementedError")
                  /\ UNCHANGED played
             [] OTHER ->
                  /\ CanCall
                  /\ IF startswith(Top.sel, live_icon)
                     THEN play_stream_selected(<<channel.broadcaster_name>>)
                     ELSE UNCHANGED played
                  /\ stack' = Call("return", InfoReentry(Top.chan))
                  /\ UNCHANGED status
    /\ UNCHANGED <<_user_follows, remote_follows, follows_calls, m_names, m_streams, m_out, main>>

\* show_videos up to its prompt, or to the no-results screen
ShowVideos ==
    /\ At("show_videos", "start")
    /\ CanCall
    /\ \E channel_videos \in MediaAnswers :
        LET channel == information(Top.chan)
            d == videos_dict(channel_videos)
            me == [Top EXCEPT !.data = channel_videos, !.fetches = VideosFetches]
        IN  IF d = <<>>
            THEN stack' = Append([stack EXCEPT ![Len(stack)] = [me EXCEPT !.pc = "no_results"]],
                                 NoResultsFrame(<<"No", "available", "videos", channel.broadcaster_name>>))
            ELSE stack' = Append([stack EXCEPT ![Len(stack)] = [me EXCEPT !.pc = "selected"]],
                                 ShowItemsFrame(DictKeys(d), VideosFallback(channel), TRUE))
    /\ UNCHANGED <<status, _user_follows, remote_follows, follows_calls, played, m_names, m_streams, m_out, main>>

\* line 180: return self.show_info(channel.broadcaster_id)
ShowVideosNoResults ==
    /\ At("show_videos", "no_results")
    /\ CanCall
    /\ stack' = Call("return", Frame("show_info", information(Top.chan).broadcaster_id))
    /\ UNCHANGED <<status, _user_follows, remote_follows, follows_calls, played, m_names, m_streams, m_out, main>>

\* lines 190-192
ShowVideosPlay ==
    /\ At("show_videos", "selected")
    /\ CanCall
    /\ LET d == videos_dict(Top.data)
       IN  IF Top.sel \in Range(DictKeys(d))
           THEN /\ play_stream_selected(<<DictGet(d, Top.sel).url>>)
                /\ stack' = Call("return", VideosReentry(Top.chan))
                /\ UNCHANGED status
           ELSE /\ Terminate("KeyError")
                /\ UNCHANGED played
    /\ UNCHANGED <<_user_follows, remote_follows, follows_calls, m_names, m_streams, m_out, main>>

\* show_clips(channel, clips) up to its prompt, or to the no-results screen.
\* data is the parameter clips (<<>> for None); sess counts the calls of
\* twitch.clips.get_clips since Clips was entered from Info.
ShowClips ==
    /\ At("show_clips", "start")
    /\ CanCall
    /\ \E fetched \in MediaAnswers :
        LET channel == information(Top.chan)
            fetch == NeedsFetch(Top.data)
            clips == IF fetch THEN fetched ELSE Top.data
            d == clips_dict(clips)
            me == [Top EXCEPT !.data = clips, !.sess = IF fetch THEN @ + 1 ELSE @,
                              !.fetches = ClipsFetches(Top.data)]
        IN  IF NoClips(d)
            THEN stack' = Append([stack EXCEPT ![Len(stack)] = [me EXCEPT !.pc = "no_results"]],
                                 NoResultsFrame(<<"No", "available", "clips", channel.broadcaster_name>>))
            ELSE stack' = Append([stack EXCEPT ![Len(stack)] = [me EXCEPT !.pc = "selected"]],
                                 ShowItemsFrame(DictKeys(d), ClipsFallback(channel), TRUE))
    /\ UNCHANGED <<status, _user_follows, remote_follows, follows_calls, played, m_names, m_streams, m_out, main>>

\* line 284: self.show_info(channel.broadcaster_id), and lines 286-292 if it returns
ShowClipsNoResults ==
    /\ status = "running" /\ stack # <<>>
    /\ Top.fn = "show_clips" /\ Top.pc \in {"no_results", "after_info"}
    /\ CanCall
    /\ LET channel == information(Top.chan)
       IN  IF Top.pc = "no_results"
           THEN stack' = Call("after_info", Frame("show_info", channel.broadcaster_id))
           ELSE stack' = Call("selected", ShowItemsFrame(DictKeys(clips_dict(Top.data)), ClipsFallback(channel), TRUE))
    /\ UNCHANGED <<status, _user_follows, remote_follows, follows_calls, played, m_names, m_streams, m_out, main>>

\* lines 294-296
ShowClipsPlay ==
    /\ At("show_clips", "selected")
    /\ CanCall
    /\ LET d == clips_dict(Top.data)
       IN  IF Top.sel \in Range(DictKeys(d))
           THEN /\ play_clip_selected(DictGet(d, Top.sel))
                /\ stack' = Call("return", [Frame("show_clips", Top.chan) EXCEPT !.data = DictValues(d), !.sess = Top.sess])
                /\ UNCHANGED status
           ELSE /\ Terminate("KeyError")
                /\ UNCHANGED played
    /\ UNCHANGED <<_user_follows, remote_follows, follows_calls, m_names, m_streams, m_out, main>>

---------------------------------------------------------------------------

Next ==
    \/ ShowItemsReply
    \/ HandleMissingOption
    \/ ShowItemsMissing
    \/ ShowItemsFallbackReturned
    \/ NoResultsReply
    \/ Return
    \/ ShowMenu
    \/ ShowMenuDispatch
    \/ ShowOnlineFollows
    \/ ShowOnlineFollowsNoResults
    \/ ShowOnlineFollowsPlay
    \/ ShowFollowsAndOnline
    \/ ShowFollows
    \/ ShowFollowsSelected
    \/ ShowInfo
    \/ ShowInfoSelected
    \/ ShowVideos
    \/ ShowVideosNoResults
    \/ ShowVideosPlay
    \/ ShowClips
    \/ ShowClipsNoResults
    \/ ShowClipsPlay

Spec == Init /\ [][Next]_vars

---------------------------------------------------------------------------
(* merge_with_online on its own: any sorted list of distinct names, any    *)
(* list of live streams                                                    *)

SortedNameLists == {sorted(s) : s \in DistinctSeqs(Names)}

InitMerge ==
    /\ stack = <<>>
    /\ status = "merge"
    /\ _user_follows = [none |-> TRUE, val |-> <<>>]
    /\ remote_follows = <<>>
    /\ follows_calls = 0
    /\ played = [kind |-> "none", target |-> <<>>]
    /\ m_names \in SortedNameLists
    /\ m_streams \in SeqsUpTo(Streams, MaxList)
    /\ m_out = [done |-> FALSE, val |-> <<>>]
    /\ main = MainInRun

MergeWithOnline ==
    /\ ~m_out.done
    /\ m_out' = [done |-> TRUE,
                 val |-> merge_with_online([i \in 1..Len(m_names) |-> <<m_names[i]>>], m_streams)]
    /\ UNCHANGED <<stack, status, _user_follows, remote_follows, follows_calls, played, m_names, m_streams, main>>

NextMerge == MergeWithOnline

SpecMerge == InitMerge /\ [][NextMerge]_vars

---------------------------------------------------------------------------
(* __main__.main: the command line, the outcome of every call that can     *)
(* raise, and what the entry coroutine returns are inputs                  *)

Args == [help : BOOLEAN, verbose : BOOLEAN, test : BOOLEAN, channel : BOOLEAN, games : BOOLEAN]
\* members of CONNECTION_EXCEPTION and of EXCEPTIONS
CONNECTION_EXCEPTION == {"ConnectError"}
EXCEPTIONS == {"ChannelOfflineError"}
\* what a call inside the try block can raise: a caught error, an interrupt,
\* or something no except clause names (SystemExit, NotImplementedError)
Raisable == CONNECTION_EXCEPTION \cup EXCEPTIONS \cup {"KeyboardInterrupt", "SystemExit", "NotImplementedError"}
\* what run(<entry coroutine>) evaluates to when it completes
RunResults == {"0", "None"}

InitMain ==
    /\ stack = <<>>
    /\ status = "main"
    /\ _user_follows = [none |-> TRUE, val |-> <<>>]
    /\ remote_follows = <<>>
    /\ follows_calls = 0
    /\ played = [kind |-> "none", target |-> <<>>]
    /\ m_names = <<>>
    /\ m_streams = <<>>
    /\ m_out = [done |-> FALSE, val |-> <<>>]
    /\ main \in [pc : {"start"}, args : Args, events : {<<>>}, err : {"none"}, ret : {"unset"}]

MainStep(pc, event) == main' = [main EXCEPT !.pc = pc, !.events = Append(@, event)]
MainReturn(events, value) == main' = [main EXCEPT !.pc = "returned", !.events = @ \o events, !.ret = value]
MainRaise(event, err) == main' = [main EXCEPT !.pc = "raised", !.events = Append(@, event), !.err = err]
AppVars == <<stack, status, _user_follows, remote_follows, follows_calls, played, m_names, m_streams, m_out>>

\* lines 20-23
MainHelp ==
    /\ main.pc = "start"
    /\ IF main.args.help
       THEN MainReturn(<<"setup.help">>, "0")
       ELSE main' = [main EXCEPT !.pc = "verbose"]
    /\ UNCHANGED AppVars

\* lines 25-28
MainVerbose ==
    /\ main.pc = "verbose"
    /\ main' = [main EXCEPT !.pc = "menu",
                            !.events = @ \o IF main.args.verbose THEN <<"logger.verbose", "log.debug">>
                                                                ELSE <<"logger.verbose">>]
    /\ UNCHANGED AppVars

\* line 30
MainMenu ==
    /\ main.pc = "menu"
    /\ MainStep("app", "setup.menu")
    /\ UNCHANGED AppVars

\* lines 32-33
MainApp ==
    /\ main.pc = "app"
    /\ \/ MainStep("keybinds", "setup.app")
       \/ \E e \in Raisable : MainRaise("setup.app", e)
    /\ UNCHANGED AppVars

\* line 34
MainKeybinds ==
    /\ main.pc = "keybinds"
    /\ \/ MainStep("dispatch", "setup.keybinds")
       \/ \E e \in Raisable : MainRaise("setup.keybinds", e)
    /\ UNCHANGED AppVars

\* lines 36-42: the entry coroutine the arguments select
Entry(args) ==
    IF args.test THEN "setup.test"
    ELSE IF args.channel THEN "show_by_query"
    ELSE IF args.games THEN "show_by_game"
    ELSE "show_all_streams"

MainDispatch ==
    /\ main.pc = "dispatch"
    /\ \/ \E r \in RunResults : MainReturn(<<Entry(main.args)>>, r)
       \/ \E e \in Raisable : MainRaise(Entry(main.args), e)
    /\ UNCHANGED AppVars

\* lines 44-46
ErrorHandler_selectFirst(err) == <<"menu.select", "unregister_all", "log.error">>
ErrorHandler(err) == <<"unregister_all", "menu.select", "log.error">>
\* line 48
InterruptHandler == <<"log.info">>

\* lines 43-49
MainExcept ==
    /\ main.pc = "raised"
    /\ IF main.err \in CONNECTION_EXCEPTION \cup EXCEPTIONS
       THEN MainReturn(ErrorHandler(main.err), "1")
       ELSE IF main.err = "KeyboardInterrupt"
       THEN MainReturn(InterruptHandler, "1")
       ELSE main' = [main EXCEPT !.pc = "propagated"]
    /\ UNCHANGED AppVars

NextMain ==
    \/ MainHelp
    \/ MainVerbose
    \/ MainMenu
    \/ MainApp
    \/ MainKeybinds
    \/ MainDispatch
    \/ MainExcept

SpecMain == InitMain /\ [][NextMain]_vars

---------------------------------------------------------------------------
(* Properties *)

Screens == {"show_menu", "show_follows", "show_online_follows", "show_info", "show_videos", "show_clips"}

\* frame i is a show_items invocation that got `selected` and went on
Replied(i) == stack[i].fn = "show_items" /\ stack[i].pc # "prompt"
\* frame i is the prompt of a navigation screen (not an informational one)
NavPrompt(i) == i > 1 /\ stack[i].fn = "show_items" /\ stack[i].pc = "prompt" /\ stack[i - 1].fn \in Screens
\* frame i took a reply that is neither offered nor the back sentinel
InvalidReply(i) == Replied(i) /\ stack[i].sel \notin Range(stack[i].items) /\ stack[i].sel # back
\* frame i took the back sentinel on a screen with back enabled and a fallback bound
BackReply(i) == Replied(i) /\ stack[i].sel = back /\ stack[i].back /\ stack[i].fb # None

\* C1: after an invalid reply (not offered, not the back sentinel) no
\* navigation screen is presented any more, with or without a fallback bound:
\* only the informational screen follows, then exit status 1.
C1_InvalidIsFatal ==
    \A i \in 1..Len(stack) : InvalidReply(i) => \A j \in (i + 1)..Len(stack) : ~NavPrompt(j)

\* C2: after the back sentinel on a screen with back enabled and a fallback
\* bound, the invocation calls the parent's re-entry function and nothing
\* else: whatever runs above it is the fallback, never a further prompt of
\* its own.
C2_BackOnlyCallsParent ==
    \A i \in 1..Len(stack) :
        (BackReply(i) /\ i < Len(stack)) => stack[i + 1].fn = stack[i].fb.fn

\* C3: backing out of Videos(c) or Clips(c) re-enters Info(c) for the same
\* channel, backing out of Info re-enters the Follows list, backing out of
\* the Follows list or the Live-followed list re-enters Root; Videos(c) and
\* Clips(c) carry the channel of the Info they were entered from.
C3_BackReentersParent ==
    /\ \A i \in 2..Len(stack) :
        (BackReply(i) /\ stack[i].pc \in {"exit", "return_selected"} /\ i < Len(stack)) =>
            LET screen == stack[i - 1]
                parent == stack[i + 1]
            IN  CASE screen.fn \in {"show_videos", "show_clips"} ->
                       parent.fn = "show_info" /\ parent.chan = screen.chan
                  [] screen.fn = "show_info" ->
                       /\ parent.fn = "show_follows_and_online"
                       /\ (parent.pc = "follow" /\ i + 2 <= Len(stack)) => stack[i + 2].fn = "show_follows"
                  [] screen.fn \in {"show_follows", "show_online_follows"} ->
                       parent.fn = "show_menu"
                  [] OTHER -> FALSE
    /\ \A k \in 2..Len(stack) :
        stack[k].fn \in {"show_videos", "show_clips"} =>
            /\ stack[k - 1].fn \in {"show_info", stack[k].fn}
            /\ stack[k - 1].chan = stack[k].chan

\* C3 witness: Videos(c) was backed out of and Info(c) is presented again
C3_Witness ==
    /\ Len(stack) >= 4
    /\ BackReply(Len(stack) - 2)
    /\ stack[Len(stack) - 3].fn = "show_videos"
    /\ stack[Len(stack) - 1].fn = "show_info"
    /\ stack[Len(stack) - 1].chan = stack[Len(stack) - 3].chan
    /\ NavPrompt(Len(stack))

\* C4: a back-sentinel reply on a back-enabled screen is classified as back
\* (lines 92-93), not as an invalid selection.
C4_BackIsBack ==
    \A i \in 1..Len(stack) :
        (Replied(i) /\ stack[i].sel = back /\ stack[i].back) =>
            /\ Classify(stack[i].sel, stack[i].items, stack[i].fb) = "back"
            /\ stack[i].pc = "return_selected"

\* C5: when the clip fetch of Clips(c) is empty, Info(c) is entered for the
\* same channel and the empty clip list is never offered for selection.
C5_EmptyClipsGoToInfo ==
    \A i \in 1..Len(stack) :
        /\ (stack[i].fn = "show_clips" /\ stack[i].pc # "start" /\ stack[i].data = <<>>) =>
               /\ stack[i].pc \in {"no_results", "after_info"}
               /\ (stack[i].pc = "no_results" /\ i < Len(stack)) => stack[i + 1].fn = "show_no_results_message"
               /\ stack[i].pc = "after_info" =>
                      i < Len(stack) /\ stack[i + 1].fn = "show_info" /\ stack[i + 1].chan = stack[i].chan
        /\ (i > 1 /\ stack[i].fn = "show_items" /\ stack[i - 1].fn = "show_clips") => stack[i].items # <<>>

\* C5 witness: Info(c) is presented after an empty clip fetch for c
C5_Witness ==
    /\ Len(stack) >= 3
    /\ stack[Len(stack) - 2].fn = "show_clips"
    /\ stack[Len(stack) - 2].pc = "after_info"
    /\ stack[Len(stack) - 1].fn = "show_info"
    /\ NavPrompt(Len(stack))

\* frame i + 1 is the re-entry of Clips made by frame i after a play (line 296)
ClipsRedraw(i) ==
    /\ i < Len(stack)
    /\ stack[i].fn = "show_clips" /\ stack[i].pc = "return"
    /\ stack[i + 1].fn = "show_clips" /\ stack[i + 1].pc # "start"

\* C6: in one Clips session that began with a non-empty fetch, get_clips is
\* called exactly once, and every redraw after a play offers the same clip
\* records in the same order as the draw before it.
C6_ClipsFetchedOnce ==
    \A i \in 1..Len(stack) :
        /\ (stack[i].fn = "show_clips" /\ stack[i].pc # "start" /\ stack[i].data # <<>>) => stack[i].sess = 1
        /\ ClipsRedraw(i) =>
               /\ stack[i + 1].data = stack[i].data
               /\ stack[i + 1].pc \in {"selected", "return"}
               /\ i + 2 <= Len(stack) /\ stack[i + 2].fn = "show_items" =>
                      stack[i + 2].items = DictKeys(clips_dict(stack[i].data))

\* C6 witness: two clips were played in one session and the list of two
\* different clips is offered a third time
C6_Witness ==
    /\ Len(stack) >= 4
    /\ ClipsRedraw(Len(stack) - 3)
    /\ ClipsRedraw(Len(stack) - 2)
    /\ Len(stack[Len(stack) - 1].data) = 2
    /\ stack[Len(stack) - 1].data[1] # stack[Len(stack) - 1].data[2]
    /\ stack[Len(stack)].fn = "show_items" /\ stack[Len(stack)].pc = "prompt"

\* the streams of S that carry name n
LiveFor(n, S) == {k \in 1..Len(S) : S[k].user_name = n}

\* C7: merge_with_online(L) has the length of L and, at every index i, the
\* decorated label of L[i] when L[i] is the user_name of a stream of S and
\* L[i] itself otherwise.
C7_MergeKeepsOrderAndLength ==
    m_out.done =>
        /\ Len(m_out.val) = Len(m_names)
        /\ \A i \in 1..Len(m_names) :
            IF LiveFor(m_names[i], m_streams) # {}
            THEN \E k \in LiveFor(m_names[i], m_streams) : m_out.val[i] = LiveLabel(m_streams[k])
            ELSE m_out.val[i] = <<m_names[i]>>

\* C7 witness: a merge that decorated the first of three names and left the
\* other two alone
C7_Witness ==
    /\ m_out.done
    /\ Len(m_names) = 3
    /\ LiveFor(m_names[1], m_streams) # {}
    /\ LiveFor(m_names[2], m_streams) = {}
    /\ LiveFor(m_names[3], m_streams) = {}

\* the channel name a follow label was rendered from
LabelName(label) ==
    CHOOSE n \in Names : label = <<n>> \/ \E t \in Titles : label = LiveLabel([user_name |-> n, title |-> t])
\* the position a video or clip label was rendered at
LabelIndex(label) == CHOOSE i \in 1..Len(Digits) : Digits[i] = label[1]

\* C8: the selected label resolves to the record it was rendered from: on
\* the Follows list, bare or live-decorated, show_follows returns the follow
\* whose to_name is the label's channel (Info gets its to_id); on Videos and
\* Clips the record played is the one at the label's position.
C8_LabelRoundTrip ==
    [][/\ At("show_follows", "selected") =>
              /\ status' = "running"
              /\ Len(stack') = Len(stack) - 1
              /\ \E j \in 1..Len(remote_follows) :
                    /\ remote_follows[j].to_name = LabelName(Top.sel)
                    /\ stack'[Len(stack')].chan = remote_follows[j].to_id
       /\ At("show_videos", "selected") =>
              /\ status' = "running"
              /\ played' = [kind |-> "stream", target |-> <<Top.data[LabelIndex(Top.sel)].url>>]
       /\ At("show_clips", "selected") =>
              /\ status' = "running"
              /\ played' = [kind |-> "clip", target |-> <<Top.data[LabelIndex(Top.sel)].url>>]
      ]_vars

\* C8 witness: the live-decorated label of bob was selected on the Follows
\* list, with alice offered before it, and show_follows resolves it
C8_Witness ==
    /\ At("show_follows", "selected")
    /\ Top.sel = LiveLabel([user_name |-> "bob", title |-> "t1"])
    /\ Len(Top.follows) = 2

\* C9: twitch.channels.follows is read at most once in a run, whatever it
\* answers.
C9_FollowsFetchedOnce == follows_calls <= 1

\* the running invocation just dismissed its no-results screen
AfterNoResults ==
    /\ status = "running" /\ stack # <<>>
    /\ Top.fn \in {"show_videos", "show_clips", "show_online_follows"}
    /\ Top.pc = "no_results"

\* C10: after the no-results screen the parent screen is entered again:
\* Info(channel) for Videos and Clips, Root for Live-followed; the process
\* does not end.
C10_NoResultsRecovers ==
    [][AfterNoResults =>
          /\ status' = "running"
          /\ Len(stack') = Len(stack) + 1
          /\ stack'[Len(stack')].pc = "start"
          /\ IF Top.fn = "show_online_follows"
             THEN stack'[Len(stack')].fn = "show_menu"
             ELSE stack'[Len(stack')].fn = "show_info" /\ stack'[Len(stack')].chan = Top.chan
      ]_vars

\* the labels of menu_info
LastStreamLabel(chan) == menu_info(information(chan), FALSE)[2]
RefreshLabels(chan) == {menu_info(information(chan), FALSE)[1], menu_info(information(chan), FALSE)[3]}

\* C11: selecting the "Last Stream" line of Info ends in the
\* unimplemented-feature failure: Info is not presented again, no child
\* screen is entered and nothing is handed to the player.
C11_LastStreamFails ==
    [][(At("show_info", "selected") /\ Top.sel = LastStreamLabel(Top.chan)) =>
          /\ status' = "NotImplementedError"
          /\ stack' = <<>>
          /\ played' = played
      ]_vars

\* C11 witness: the process ended in NotImplementedError
C11_Witness == status = "NotImplementedError" /\ stack = <<>>

\* C15: on Info(user_id), selecting the Category line or the separator
\* presents Info(user_id) again: no child screen, nothing played, no exit.
C15_InfoRefreshLoop ==
    [][(At("show_info", "selected") /\ Top.sel \in RefreshLabels(Top.chan)) =>
          /\ status' = "running"
          /\ played' = played
          /\ Len(stack') = Len(stack) + 1
          /\ stack'[Len(stack')].fn = "show_info"
          /\ stack'[Len(stack')].chan = Top.chan
          /\ stack'[Len(stack')].pc = "start"
      ]_vars

\* C15 witness: Info(2) is presented again above the Info(2) whose separator was selected
C15_Witness ==
    /\ Len(stack) >= 3
    /\ stack[Len(stack)].fn = "show_items" /\ stack[Len(stack)].pc = "prompt"
    /\ stack[Len(stack) - 1].fn = "show_info" /\ stack[Len(stack) - 1].chan = 2
    /\ stack[Len(stack) - 2].fn = "show_info" /\ stack[Len(stack) - 2].chan = 2
    /\ stack[Len(stack) - 2].sel = <<"-----">>

\* positions of an event in main's trace
EventAt(e) == {i \in 1..Len(main.events) : main.events[i] = e}
MenuEvents == {"menu.select", "setup.test", "show_by_query", "show_by_game", "show_all_streams"}
Caught == CONNECTION_EXCEPTION \cup EXCEPTIONS

\* C12: main returns 0 only after the help display or a normal completion
\* of the entry coroutine; after a caught connection/application failure
\* and after a user interrupt it returns 1; in the failure case the
\* keybindings are unregistered before the error screen, which is the last
\* menu screen; in the interrupt case there is no error screen.
C12_ExitStatus ==
    /\ main.pc = "returned" /\ main.ret = "0" =>
          /\ main.err = "none"
          /\ main.events[Len(main.events)] \in {"setup.help", Entry(main.args)}
    /\ main.err \in Caught \cup {"KeyboardInterrupt"} /\ main.pc # "raised" =>
          main.pc = "returned" /\ main.ret = "1"
    /\ main.err \in Caught /\ main.pc = "returned" =>
          /\ EventAt("unregister_all") # {} /\ EventAt("menu.select") # {}
          /\ \A i \in EventAt("unregister_all"), j \in EventAt("menu.select") : i < j
          /\ \A j \in EventAt("menu.select"), k \in 1..Len(main.events) :
                k > j => main.events[k] \notin MenuEvents
    /\ main.err = "KeyboardInterrupt" /\ main.pc = "returned" => EventAt("menu.select") = {}

\* C12 witness: a connection failure of the entry coroutine was caught and main returned 1
C12_Witness ==
    /\ main.pc = "returned" /\ main.ret = "1" /\ main.err = "ConnectError"
    /\ main.events[Len(main.events)] = "log.error"
    /\ EventAt("show_all_streams") # {}

\* the entries of a list are pairwise distinct
Distinct(items) == \A a, b \in 1..Len(items) : a # b => items[a] # items[b]
\* frame i presents the option set of a Videos or Clips invocation
MediaPrompt(i) ==
    /\ i > 1 /\ stack[i].fn = "show_items"
    /\ stack[i - 1].fn \in {"show_videos", "show_clips"} /\ stack[i - 1].pc = "selected"

\* C13: the labels of every option set presented are pairwise distinct, and
\* Videos and Clips present as many labels as records were fetched, also
\* when records agree in every field.
C13_LabelsDistinct ==
    \A i \in 1..Len(stack) :
        /\ stack[i].fn = "show_items" => Distinct(stack[i].items)
        /\ MediaPrompt(i) => Len(stack[i].items) = Len(stack[i - 1].data)

\* C13 witness: two videos with the same fields are offered under two labels
C13_Witness ==
    /\ Len(stack) > 1 /\ MediaPrompt(Len(stack)) /\ Top.pc = "prompt"
    /\ stack[Len(stack) - 1].fn = "show_videos"
    /\ stack[Len(stack) - 1].data = <<Media("u1"), Media("u1")>>
    /\ Len(Top.items) = 2

\* the running invocation is about to hand its selection to the player
AboutToPlay ==
    /\ status = "running" /\ stack # <<>> /\ Top.pc = "selected"
    /\ \/ Top.fn \in {"show_videos", "show_clips", "show_online_follows"}
       \/ Top.fn = "show_info" /\ startswith(Top.sel, live_icon)

\* C14: every invocation that dispatches a play presents the same screen
\* with the same arguments as its next prompt: Videos(channel), Clips(channel),
\* Info(user_id), and the Live-followed list.
C14_ReentersAfterPlay ==
    [][AboutToPlay =>
          /\ status' = "running"
          /\ Len(stack') = Len(stack) + 1
          /\ stack'[Len(stack')].fn = Top.fn
          /\ stack'[Len(stack')].chan = Top.chan
          /\ stack'[Len(stack')].pc = "start"
      ]_vars

\* the first and the last stream of S that carry name n
FirstLive(n, S) == CHOOSE k \in LiveFor(n, S) : \A j \in LiveFor(n, S) : k <= j
LastLive(n, S) == CHOOSE k \in LiveFor(n, S) : \A j \in LiveFor(n, S) : k >= j
\* name n is live more than once in S
LiveTwice(n, S) == \E j, k \in LiveFor(n, S) : j # k

\* the list keeps its length and every name that is not live stays as it is
MergeKeepsTheRest ==
    /\ Len(m_out.val) = Len(m_names)
    /\ \A i \in 1..Len(m_names) : LiveFor(m_names[i], m_streams) = {} => m_out.val[i] = <<m_names[i]>>

\* C16 as stated: when a followed name is live twice, the entry at its index
\* is the decoration built from the last of its streams; the length and the
\* other entries are unchanged.
C16_LastStreamWins ==
    m_out.done =>
        \A i \in 1..Len(m_names) :
            LiveTwice(m_names[i], m_streams) =>
                /\ m_out.val[i] = LiveLabel(m_streams[LastLive(m_names[i], m_streams)])
                /\ MergeKeepsTheRest

\* C16, amended: when a followed name is live twice, the entry at its index
\* is the decoration built from the first of its streams (after the first
\* replacement the name is no longer in the list); the length and the other
\* entries are unchanged.
C16_FirstStreamWins ==
    m_out.done =>
        \A i \in 1..Len(m_names) :
            LiveTwice(m_names[i], m_streams) =>
                /\ m_out.val[i] = LiveLabel(m_streams[FirstLive(m_names[i], m_streams)])
                /\ MergeKeepsTheRest

\* C16 witness: a followed name was live twice under two titles and the merge ran
C16_Witness ==
    /\ m_out.done
    /\ Len(m_names) = 2
    /\ LiveTwice(m_names[1], m_streams)
    /\ m_streams[1].title # m_streams[2].title
    /\ m_streams[1].user_name = m_names[1]
    /\ m_out.val[1] = LiveLabel(m_streams[1])

\* frame i is a screen that issued the reads of its draw
Drawn(s, i) == s[i].fn \in Screens /\ s[i].pc # "start"
\* the number of remote reads a draw of each screen may issue
OneFetch(fn) == IF fn = "show_follows" THEN 2 ELSE 1
InfoTwoFetches(fn) == IF fn \in {"show_follows", "show_info"} THEN 2 ELSE 1
\* every drawn screen stayed within Limit, and a screen whose prompt is up
\* issues no further read
FetchDiscipline(Limit(_)) ==
    \A i \in 1..Len(stack') :
        Drawn(stack', i) =>
            /\ Len(SelectSeq(stack'[i].fetches, LAMBDA f : f \in RemoteReads)) <= Limit(stack'[i].fn)
            /\ i <= Len(stack) /\ Drawn(stack, i) /\ stack[i].fn = stack'[i].fn
                  => stack'[i].fetches = stack[i].fetches

\* C17 as stated: between entering a screen and presenting its prompt at
\* most one remote read is issued, at every screen but Follows, which may
\* issue two; the reads of a draw are over when its prompt is presented.
C17_OneFetchPerDraw == [][FetchDiscipline(OneFetch)]_vars

\* C17, amended: between entering a screen and presenting its prompt at
\* most one remote read is issued at Videos, Clips and Live-followed; Info
\* issues two (channel information, then live status) and Follows may issue
\* two; the reads of a draw are over when its prompt is presented.
C17_FetchesPerDraw == [][FetchDiscipline(InfoTwoFetches)]_vars

\* C17 witness: the prompt of Info is up after its two reads
C17_Witness ==
    /\ Len(stack) >= 3 /\ Top.fn = "show_items" /\ Top.pc = "prompt"
    /\ stack[Len(stack) - 1].fn = "show_info"
    /\ stack[Len(stack) - 1].fetches = <<"information", "is_online">>

\* frame i is the informational screen of handle_missing_option
Informational(i) == i > 1 /\ stack[i].fn = "show_items" /\ stack[i - 1].fn = "handle_missing_option"

\* C18: whatever the menu answers to the informational screen of
\* handle_missing_option, that answer is not classified as a new invalid
\* selection and no second informational screen is presented.
C18_InformationalOnce ==
    \A i \in 1..Len(stack) :
        Informational(i) =>
            /\ stack[i].pc # "missing"
            /\ \A j \in (i + 1)..Len(stack) : ~Informational(j)

\* the targets of the records that invocation f fetched and offered
Offered(f) ==
    CASE f.fn \in {"show_videos", "show_clips"} -> {<<f.data[k].url>> : k \in 1..Len(f.data)}
      [] f.fn = "show_online_follows" -> {<<f.data[k]>> : k \in 1..Len(f.data)}
      [] f.fn = "show_info" -> {<<information(f.chan).broadcaster_name>>}
      [] OTHER -> {}
\* the informational messages of this run
Messages ==
    {MissingMessage(m) : m \in {back, Junk}} \cup
    {<<"No", "online", "followed", "channels">>} \cup
    {<<"No", "available", w, n>> : w \in {"videos", "clips"}, n \in Names}

\* C19: the player or launcher is handed a target only by a screen whose
\* selection was made among its offered records, and the target is that of
\* one of these records; it is never the back sentinel, an invalid reply or
\* an informational message.
C19_PlayTargetsOffered ==
    [][/\ played' # played => AboutToPlay
       /\ AboutToPlay /\ status' = "running" =>
             /\ played'.target \in Offered(Top)
             /\ played'.target \notin {back, Junk} \cup Messages
      ]_vars

\* C19 witness: the second of two clips was handed to the launcher
C19_Witness ==
    /\ played = [kind |-> "clip", target |-> <<"u1">>]
    /\ Len(stack) > 1 /\ Top.fn = "show_clips" /\ Top.pc = "start"
    /\ Top.data = <<Media("u2"), Media("u1")>>

\* the screens that end in another screen, an exit or a raised failure
Unreturning == {"show_info", "show_videos", "show_clips"}
\* the pending invocations of these screens
Pending(s) == {i \in 1..Len(s) : s[i].fn \in Unreturning}
\* the running invocation is one of them and got its selection
Selected == status = "running" /\ stack # <<>> /\ Top.fn \in Unreturning /\ Top.pc = "selected"

\* C20: show_info, show_videos and show_clips never return to their caller:
\* while the process runs no pending invocation of them goes away, none of
\* them resumes after a call that stands in tail position, and every
\* selection made on these screens adds a pending invocation.
C20_PendingNeverShrinks ==
    [][status' = "running" =>
          /\ Pending(stack) \subseteq Pending(stack')
          /\ \A i \in Pending(stack) : stack'[i].fn = stack[i].fn
          /\ stack' # <<>> /\ stack'[Len(stack')].fn \in Unreturning =>
                stack'[Len(stack')].pc \in {"start", "selected", "no_results"}
          /\ Selected => Cardinality(Pending(stack')) = Cardinality(Pending(stack)) + 1
      ]_vars

\* C20 witness: Info, Clips and Videos invocations are pending together,
\* five of them at least
C20_Witness ==
    /\ status = "running"
    /\ {stack[i].fn : i \in Pending(stack)} = Unreturning
    /\ Cardinality(Pending(stack)) >= 5

====
